---- MODULE Spec2Model ----
(***************************************************************************)
(* The client-side session state controller of AI-Co-Scientist: the React  *)
(* component ResearchSession (frontend/src/components/ResearchSession.js). *)
(* Its useState cells are the variables, every event handler is one        *)
(* action.  Handlers run to completion on the single JavaScript thread.    *)
(***************************************************************************)
EXTENDS Integers, Sequences, FiniteSets, TLC

\* ------------------------------------------------------------------ bounds
\* Number of channel events (frame, error, close) and button clicks handled
\* along one behaviour.
MaxOps == 3
\* Iteration numbers the service announces are 1..MaxIteration.
MaxIteration == 2
\* Number of domain-detection requests that can be outstanding at once.
MaxInference == 2

\* ------------------------------------------------------------ value domains
\* JavaScript undefined/null for a score, a review, a string cell.
NoScore == 0 - 1
NoReview == "undefined"
Null == "null"
\* The value `review` takes when data.review is an object without a truthy
\* .review member: the object itself is stored.
ObjectReview == "[object Object]"

HypIds == {"h1", "h2"}
Iterations == 1..MaxIteration
\* Scores are tenths: 9 stands for 0.9, 0 for a zero (falsy) score.
AgentKeys == {"generation", "reflection", "ranking"}
Statuses == {"pending", "running", "completed", "error"}

\* String.prototype.toLowerCase on the agent names that occur.
ToLowerCase(s) ==
  CASE s = "Reflection" -> "reflection"
    [] OTHER -> s

\* String.prototype.trim on the goal texts that occur.
Trim(s) ==
  CASE s = "  " -> ""
    [] s = " goal " -> "goal"
    [] s = "  fifteen chars !  " -> "fifteen chars !"
    [] OTHER -> s

\* String.prototype.length of the trimmed goal texts that occur.
Length(s) ==
  CASE s = "" -> 0
    [] s = "goal" -> 4
    [] s = "ten chars!" -> 10
    [] s = "fifteen chars !" -> 15
    [] s = "sixteen chars !!" -> 16
    [] s = "twenty characters!!!" -> 20

\* JavaScript truthiness of the modelled value kinds.
TruthyScore(s) == s # NoScore /\ s # 0
TruthyString(s) == s # NoReview /\ s # Null /\ s # ""

VARIABLES
  sessionId,        \* useState(null)
  researchGoal,     \* useState('')
  hypotheses,       \* useState([])
  isStarted,        \* useState(false)
  error,            \* useState(null)
  sessionStatus,    \* useState('idle')
  domainContext,    \* useState(null)
  maxIterations,    \* useState(3)
  hypothesesPerIteration, \* useState(1)
  wsConnected,      \* useState(false)
  currentAgent,     \* useState('')
  iteration,        \* useState(0)
  progress,         \* useState({generation, reflection, ranking: 'pending'})
  isRunning,        \* useState(false)
  sockets,          \* readyState of every WebSocket built and not yet closed
  reconnectTimers,  \* number of pending setTimeout(connectWebSocket, ...)
  attempts,         \* parity of the number of observed connectWebSocket calls
  mounted,          \* the component is mounted
  startRequests,    \* bodies of the outstanding POST /api/research/start calls
  debounceTimers,   \* pending setTimeout(detectDomain, 1000) closures
  domainDetectionLoading, \* useState(false)
  inferenceRequests, \* bodies of the outstanding POST .../detect-domain calls
  ops               \* channel events and button clicks handled so far

vars == <<sessionId, researchGoal, hypotheses, isStarted, error, sessionStatus,
          domainContext, maxIterations, hypothesesPerIteration, wsConnected,
          currentAgent, iteration, progress, isRunning, sockets, reconnectTimers,
          attempts, mounted, startRequests, debounceTimers, domainDetectionLoading,
          inferenceRequests, ops>>

AllPending == [k \in AgentKeys |-> "pending"]
AllCompleted == [k \in AgentKeys |-> "completed"]

\* The `iteration` that the channel handlers read.  The WebSocket effect has
\* an empty dependency list, so onmessage keeps calling the
\* handleWebSocketMessage/handleAgentUpdate closures of the mount render, in
\* which `iteration` is the initial state 0 whatever setIteration did since.
HandlerIteration == 0

\* domainContext === null, as a record so that it compares with the contexts.
NoContext ==
  [domain |-> Null, expert_role |-> Null, research_focus |-> Null,
   hypothesis_type |-> Null]

\* What a detectDomain closure captured from its render.
Closure(goal, started) == [researchGoal |-> goal, isStarted |-> started]

\* Variant: the effect arms its timer without clearing the previous one.
ArmDebounce_NoClear(timers, goal, started) == timers \cup {Closure(goal, started)}

\* const debounceTimer = setTimeout(detectDomain, 1000) after the cleanup
\* of the previous run of the effect, clearTimeout(debounceTimer), has run.
ArmDebounce(timers, goal, started) == {Closure(goal, started)}

Init ==
  /\ sessionId = Null
  /\ researchGoal = ""
  /\ hypotheses = <<>>
  /\ isStarted = FALSE
  /\ error = Null
  /\ sessionStatus = "idle"
  /\ domainContext = NoContext
  /\ maxIterations = 3
  /\ hypothesesPerIteration = 1
  /\ wsConnected = FALSE
  /\ currentAgent = ""
  /\ iteration = 0
  /\ progress = AllPending
  /\ isRunning = FALSE
  /\ sockets \in {<<"connecting">>, <<>>}
  /\ reconnectTimers = IF sockets = <<>> THEN 1 ELSE 0
  /\ attempts = FALSE
  /\ mounted = TRUE
  /\ startRequests = <<>>
  /\ debounceTimers = ArmDebounce({}, "", FALSE)
  /\ domainDetectionLoading = FALSE
  /\ inferenceRequests = <<>>
  /\ ops = 0

\* ------------------------------------------------------- channel messages
\* What the service puts in the `data` member of a message.  `present` is
\* FALSE when the message has no data object at all.
NoReviewPayload == [kind |-> "undefined", review |-> NoReview, score |-> NoScore]
NoData ==
  [present |-> FALSE, hypothesis |-> <<>>, review |-> NoReviewPayload,
   hasRanked |-> FALSE, ranked |-> <<>>, iteration |-> 0, error |-> Null]
EmptyData == [NoData EXCEPT !.present = TRUE]

AgentUpdate(a, s, d) ==
  [type |-> "agent_update", agent |-> a, status |-> s, event_type |-> "", data |-> d]
SessionUpdate(e, d) ==
  [type |-> "session_update", agent |-> "", status |-> "", event_type |-> e, data |-> d]

\* A hypothesis as the generation agent announces it: not yet reviewed.
GenPayloads ==
  [id : HypIds, iteration : Iterations, review : {NoReview}, score : {NoScore}]
\* A hypothesis as the ranking agent returns it: reviewed and scored, or
\* (second shape) one that never got a review and carries a zero score.
RankPayloads ==
  [id : HypIds, iteration : {1}, review : {"good"}, score : {9}]
    \cup [id : HypIds, iteration : {1}, review : {NoReview}, score : {0}]
\* data.review of a reflection update: absent, a bare string, or an object.
ReviewPayloads ==
  { NoReviewPayload,
    [kind |-> "string", review |-> "ok", score |-> NoScore],
    [kind |-> "object", review |-> "ok", score |-> 9],
    [kind |-> "object", review |-> NoReview, score |-> 0] }

\* Ranked lists name every hypothesis at most once (identifiers are unique
\* within a session).
RankedLists ==
  { <<>> } \cup { <<a>> : a \in RankPayloads }
    \cup { p \in RankPayloads \X RankPayloads : p[1].id # p[2].id }

GenerationData ==
  { EmptyData } \cup { [EmptyData EXCEPT !.hypothesis = <<h>>] : h \in GenPayloads }
ReflectionData ==
  { [EmptyData EXCEPT !.review = r] : r \in ReviewPayloads }
RankingData ==
  { EmptyData } \cup { [EmptyData EXCEPT !.hasRanked = TRUE, !.ranked = l] : l \in RankedLists }

AgentMessages ==
  { AgentUpdate(a, s, NoData) : a \in AgentKeys, s \in Statuses }
    \cup { AgentUpdate("Reflection", s, NoData) : s \in {"running", "completed"} }
    \cup { AgentUpdate("", "running", NoData), AgentUpdate("ranking", "", NoData) }
    \cup { AgentUpdate("generation", "completed", d) : d \in GenerationData }
    \cup { AgentUpdate("reflection", "completed", d) : d \in ReflectionData }
    \cup { AgentUpdate("ranking", "completed", d) : d \in RankingData }

SessionMessages ==
  { SessionUpdate(e, d) :
      e \in {"research_started", "research_completed", "session_paused"},
      d \in {EmptyData} }
    \cup { SessionUpdate("iteration_start", [EmptyData EXCEPT !.iteration = n]) :
             n \in 0..MaxIteration }
    \cup { SessionUpdate("research_error", [EmptyData EXCEPT !.error = e]) :
             e \in {"boom", Null} }
    \cup { SessionUpdate(e, NoData) : e \in {"iteration_start", "research_error"} }

OtherMessages ==
  { [type |-> "ping", agent |-> "", status |-> "", event_type |-> "", data |-> NoData] }

Messages == AgentMessages \cup SessionMessages \cup OtherMessages

\* A text frame: either JSON.parse succeeds and yields a message or it throws.
Frames ==
  { [decodes |-> TRUE, message |-> m] : m \in Messages }
    \cup { [decodes |-> FALSE, message |-> CHOOSE m \in OtherMessages : TRUE] }

\* ----------------------------------------------------- hypothesis store
Stored(h, processing) ==
  [id |-> h.id, iteration |-> h.iteration, review |-> h.review,
   score |-> h.score, isProcessing |-> processing]

HasId(list, id) == \E i \in 1..Len(list) : list[i].id = id

\* Variant: the generated hypothesis overwrites a stored record of its id.
GenerationMerge_Overwrite(prev, h) ==
  IF HasId(prev, h.id)
  THEN [i \in 1..Len(prev) |-> IF prev[i].id = h.id THEN Stored(h, TRUE) ELSE prev[i]]
  ELSE Append(prev, Stored(h, TRUE))

\* Variant: the lookup of an existing record is missing.
GenerationMerge_AlwaysAppend(prev, h) == Append(prev, Stored(h, TRUE))

\* Variant: a generated hypothesis is stored as already processed.
GenerationMerge_NotProcessing(prev, h) ==
  IF HasId(prev, h.id) THEN prev ELSE Append(prev, Stored(h, FALSE))

\* setHypotheses(prev => existing ? prev : [...prev, {...h, isProcessing: true}])
GenerationMerge(prev, h) ==
  IF HasId(prev, h.id) THEN prev ELSE Append(prev, Stored(h, TRUE))

\* data.review is truthy
ReviewPresent(r) ==
  \/ r.kind = "object"
  \/ r.kind = "string" /\ TruthyString(r.review)

\* data.review.review || data.review
ReviewText(r) ==
  IF r.kind = "object"
  THEN IF TruthyString(r.review) THEN r.review ELSE ObjectReview
  ELSE r.review

\* data.review.score || h.score
ReviewScore(r, old) ==
  IF r.kind = "object" /\ TruthyScore(r.score) THEN r.score ELSE old

\* Variant: the iteration test is missing from the map callback.
ReflectionMerge_AnyIteration(prev, r, it) ==
  [i \in 1..Len(prev) |->
     IF prev[i].isProcessing
     THEN [prev[i] EXCEPT !.review = ReviewText(r),
                          !.score = ReviewScore(r, @),
                          !.isProcessing = FALSE]
     ELSE prev[i]]

\* setHypotheses(prev => prev.map(h => h.iteration === iteration &&
\*   h.isProcessing ? {...h, review, score, isProcessing: false} : h))
ReflectionMerge(prev, r, it) ==
  [i \in 1..Len(prev) |->
     IF prev[i].iteration = it /\ prev[i].isProcessing
     THEN [prev[i] EXCEPT !.review = ReviewText(r),
                          !.score = ReviewScore(r, @),
                          !.isProcessing = FALSE]
     ELSE prev[i]]

\* Variant: stored records whose id is not in the payload are kept in front.
RankingMerge_MergeById(prev, ranked) ==
  SelectSeq(prev, LAMBDA h : ~HasId(ranked, h.id))
    \o [i \in 1..Len(ranked) |-> Stored(ranked[i], FALSE)]

\* Variant: the payload is appended to the collection.
RankingMerge_Append(prev, ranked) ==
  prev \o [i \in 1..Len(ranked) |-> Stored(ranked[i], FALSE)]

\* setHypotheses(data.ranked_hypotheses.map(h => ({...h, isProcessing: false})))
RankingMerge(prev, ranked) ==
  [i \in 1..Len(ranked) |-> Stored(ranked[i], FALSE)]

\* The three `if` statements under status === 'completed'.
CompletedMerge(prev, agent, data) ==
  IF agent = "generation" /\ data.hypothesis # <<>>
  THEN GenerationMerge(prev, data.hypothesis[1])
  ELSE IF agent = "reflection" /\ ReviewPresent(data.review)
  THEN ReflectionMerge(prev, data.review, HandlerIteration)
  ELSE IF agent = "ranking" /\ data.hasRanked
  THEN RankingMerge(prev, data.ranked)
  ELSE prev

\* hypotheses.filter(h => !h.isProcessing && h.review && h.score)
\* Variant: the filter does not look at the score.
IsReady_IgnoresScore(h) == ~h.isProcessing /\ TruthyString(h.review)

IsReady(h) == ~h.isProcessing /\ TruthyString(h.review) /\ TruthyScore(h.score)
completedHypotheses(list) == SelectSeq(list, IsReady)

\* Variant: the previous map is not spread into the new one.
SetProgress_NoSpread(prev, key, status) == [k \in {key} |-> status]

\* setProgress(prev => ({...prev, [key]: status}))
SetProgress(prev, key, status) ==
  [k \in DOMAIN prev \cup {key} |-> IF k = key THEN status ELSE prev[k]]

\* ------------------------------------------------------ channel handlers
sessionVars == <<sessionId, researchGoal, isStarted, error, sessionStatus,
                 domainContext, maxIterations, hypothesesPerIteration>>
transportVars == <<wsConnected, sockets, reconnectTimers, attempts, mounted>>

\* The readyState of the socket whose events the controller receives: an
\* open one if there is one, else a connecting one, else none.
channel ==
  IF \E i \in DOMAIN sockets : sockets[i] = "open" THEN "open"
  ELSE IF sockets # <<>> THEN "connecting"
  ELSE "closed"
channelVars == <<iteration, currentAgent, progress, isRunning, hypotheses>>
domainVars == <<debounceTimers, domainDetectionLoading, inferenceRequests>>

\* The domain-detection effect, deps [researchGoal, isStarted]: after a
\* render in which one of the two changed, the previous timer is cleared and
\* a new one is armed with the closure of that render.
DetectDomainEffect ==
  /\ debounceTimers' =
       IF researchGoal' # researchGoal \/ isStarted' # isStarted
       THEN ArmDebounce(debounceTimers, researchGoal', isStarted')
       ELSE debounceTimers
  /\ UNCHANGED <<domainDetectionLoading, inferenceRequests>>

\* A sequence without its i-th element.
RemoveAt(seq, i) == [j \in 1..(Len(seq) - 1) |-> IF j < i THEN seq[j] ELSE seq[j + 1]]

\* Variant: an agent that completes clears the running flag.
handleAgentUpdate_CompletedClearsRunning(m) ==
  IF TruthyString(m.agent) /\ TruthyString(m.status)
  THEN /\ currentAgent' = m.agent
       /\ progress' = SetProgress(progress, ToLowerCase(m.agent), m.status)
       /\ isRunning' = IF m.status = "running" THEN TRUE
                       ELSE IF m.status = "completed" THEN FALSE
                       ELSE isRunning
       /\ hypotheses' = IF m.status = "completed" /\ m.data.present
                        THEN CompletedMerge(hypotheses, m.agent, m.data)
                        ELSE hypotheses
       /\ UNCHANGED <<sessionVars, iteration>>
  ELSE UNCHANGED <<sessionVars, iteration, currentAgent, progress, isRunning, hypotheses>>

\* handleAgentUpdate.  A missing data object makes the `data.x` read of the
\* agent's own branch throw after the three setters above it were called; the
\* throw is caught by onmessage, so the message then only misses its merge.
handleAgentUpdate(m) ==
  IF TruthyString(m.agent) /\ TruthyString(m.status)
  THEN /\ currentAgent' = m.agent
       /\ progress' = SetProgress(progress, ToLowerCase(m.agent), m.status)
       /\ isRunning' = IF m.status = "running" THEN TRUE ELSE isRunning
       /\ hypotheses' = IF m.status = "completed" /\ m.data.present
                        THEN CompletedMerge(hypotheses, m.agent, m.data)
                        ELSE hypotheses
       /\ UNCHANGED <<sessionVars, iteration>>
  ELSE UNCHANGED <<sessionVars, iteration, currentAgent, progress, isRunning, hypotheses>>

\* case 'research_started'
researchStarted ==
  /\ sessionStatus' = "running"
  /\ isRunning' = TRUE
  /\ UNCHANGED <<sessionId, researchGoal, isStarted, error, domainContext,
                 maxIterations, hypothesesPerIteration, iteration, currentAgent,
                 progress, hypotheses>>

\* Variant: the progress reset is missing.
iterationStart_KeepProgress(data) ==
  IF data.present /\ data.iteration # 0
  THEN /\ iteration' = data.iteration
       /\ UNCHANGED <<sessionVars, currentAgent, progress, isRunning, hypotheses>>
  ELSE UNCHANGED <<sessionVars, iteration, currentAgent, progress, isRunning, hypotheses>>

\* case 'iteration_start': `data.iteration` throws without a data object and
\* is falsy for a missing or zero iteration.
iterationStart(data) ==
  IF data.present /\ data.iteration # 0
  THEN /\ iteration' = data.iteration
       /\ progress' = AllPending
       /\ UNCHANGED <<sessionVars, currentAgent, isRunning, hypotheses>>
  ELSE UNCHANGED <<sessionVars, iteration, currentAgent, progress, isRunning, hypotheses>>

\* Variant: setIsRunning(false) is missing.
researchCompleted_KeepRunning ==
  /\ sessionStatus' = "completed"
  /\ isStarted' = FALSE
  /\ progress' = AllCompleted
  /\ UNCHANGED <<sessionId, researchGoal, error, domainContext, maxIterations,
                 hypothesesPerIteration, iteration, currentAgent, hypotheses,
                 isRunning>>

\* case 'research_completed'
researchCompleted ==
  /\ sessionStatus' = "completed"
  /\ isStarted' = FALSE
  /\ isRunning' = FALSE
  /\ progress' = AllCompleted
  /\ UNCHANGED <<sessionId, researchGoal, error, domainContext, maxIterations,
                 hypothesesPerIteration, iteration, currentAgent, hypotheses>>

\* Variant: setIsStarted(false) is missing.
researchError_KeepStarted(data) ==
  /\ sessionStatus' = "error"
  /\ IF data.present
     THEN /\ error' = IF TruthyString(data.error) THEN data.error
                      ELSE "Research session failed"
          /\ isRunning' = FALSE
     ELSE UNCHANGED <<error, isRunning>>
  /\ UNCHANGED <<sessionId, researchGoal, domainContext, maxIterations,
                 hypothesesPerIteration, iteration, currentAgent, progress,
                 hypotheses, isStarted>>

\* case 'research_error': setSessionStatus('error') comes before the
\* `data.error` read, which throws without a data object.
researchError(data) ==
  /\ sessionStatus' = "error"
  /\ IF data.present
     THEN /\ error' = IF TruthyString(data.error) THEN data.error
                      ELSE "Research session failed"
          /\ isStarted' = FALSE
          /\ isRunning' = FALSE
     ELSE UNCHANGED <<error, isStarted, isRunning>>
  /\ UNCHANGED <<sessionId, researchGoal, domainContext, maxIterations,
                 hypothesesPerIteration, iteration, currentAgent, progress,
                 hypotheses>>

handleSessionUpdate(m) ==
  CASE m.event_type = "research_started" -> researchStarted
    [] m.event_type = "iteration_start" -> iterationStart(m.data)
    [] m.event_type = "research_completed" -> researchCompleted
    [] m.event_type = "research_error" -> researchError(m.data)
    [] OTHER -> UNCHANGED <<sessionVars, iteration, currentAgent, progress,
                            isRunning, hypotheses>>

\* Variant: a message of an unknown type is taken as the end of the run.
handleWebSocketMessage_UnknownCompletes(m) ==
  CASE m.type = "agent_update" -> handleAgentUpdate(m)
    [] m.type = "session_update" -> handleSessionUpdate(m)
    [] OTHER -> researchCompleted

handleWebSocketMessage(m) ==
  CASE m.type = "agent_update" -> handleAgentUpdate(m)
    [] m.type = "session_update" -> handleSessionUpdate(m)
    [] OTHER -> UNCHANGED <<sessionVars, iteration, currentAgent, progress,
                            isRunning, hypotheses>>

\* websocket.onmessage: JSON.parse, then dispatch, both inside try/catch.
OnMessage(f) ==
  /\ channel = "open"
  /\ ops < MaxOps
  /\ ops' = ops + 1
  /\ IF f.decodes
     THEN handleWebSocketMessage(f.message)
     ELSE UNCHANGED <<sessionVars, iteration, currentAgent, progress, isRunning,
                      hypotheses>>
  /\ UNCHANGED <<transportVars, startRequests>>
  /\ DetectDomainEffect

\* ------------------------------------------------------------- transport
\* websocket.onopen of the i-th socket
OnOpen(i) ==
  /\ i \in DOMAIN sockets
  /\ sockets[i] = "connecting"
  /\ sockets' = [sockets EXCEPT ![i] = "open"]
  /\ wsConnected' = TRUE
  /\ UNCHANGED <<sessionVars, channelVars, reconnectTimers, attempts, mounted,
                 startRequests, domainVars, ops>>

\* Variant: onerror schedules a reconnect as onclose does.
OnError_Reconnects(i) ==
  /\ i \in DOMAIN sockets
  /\ ops < MaxOps
  /\ ops' = ops + 1
  /\ wsConnected' = FALSE
  /\ reconnectTimers' = reconnectTimers + 1
  /\ UNCHANGED <<sessionVars, channelVars, sockets, attempts,
                 mounted, startRequests, domainVars>>

\* websocket.onerror: the flag drops, the close event follows separately.
OnError(i) ==
  /\ i \in DOMAIN sockets
  /\ ops < MaxOps
  /\ ops' = ops + 1
  /\ wsConnected' = FALSE
  /\ UNCHANGED <<sessionVars, channelVars, sockets, reconnectTimers, attempts,
                 mounted, startRequests, domainVars>>

\* Variant: onclose does not schedule a reconnect.
OnClose_NoReconnect(i) ==
  /\ i \in DOMAIN sockets
  /\ ops < MaxOps
  /\ ops' = ops + 1
  /\ sockets' = RemoveAt(sockets, i)
  /\ wsConnected' = FALSE
  /\ UNCHANGED <<sessionVars, channelVars, reconnectTimers, attempts, mounted,
                 startRequests, domainVars>>

\* Variant: onclose reports the disconnection as a session error.
OnClose_SetsError(i) ==
  /\ i \in DOMAIN sockets
  /\ ops < MaxOps
  /\ ops' = ops + 1
  /\ sockets' = RemoveAt(sockets, i)
  /\ wsConnected' = FALSE
  /\ reconnectTimers' = reconnectTimers + 1
  /\ error' = "WebSocket disconnected"
  /\ sessionStatus' = "error"
  /\ UNCHANGED <<sessionId, researchGoal, isStarted, domainContext, maxIterations,
                 hypothesesPerIteration, channelVars, attempts, mounted,
                 startRequests, domainVars>>

\* websocket.onclose: setWsConnected(false); setTimeout(connectWebSocket, 3000)
OnClose(i) ==
  /\ i \in DOMAIN sockets
  /\ ops < MaxOps
  /\ ops' = ops + 1
  /\ sockets' = RemoveAt(sockets, i)
  /\ wsConnected' = FALSE
  /\ reconnectTimers' = reconnectTimers + 1
  /\ UNCHANGED <<sessionVars, channelVars, attempts, mounted, startRequests,
                 domainVars>>

\* connectWebSocket run by one of the pending reconnect timers: `new
\* WebSocket` either returns a connecting socket or throws, and the catch
\* arms the 5 s retry.
connectWebSocket ==
  /\ reconnectTimers > 0
  /\ \/ /\ sockets' = Append(sockets, "connecting")
        /\ reconnectTimers' = reconnectTimers - 1
        /\ UNCHANGED wsConnected
     \/ /\ UNCHANGED sockets
        /\ reconnectTimers' = (reconnectTimers - 1) + 1
        /\ wsConnected' = FALSE
  /\ UNCHANGED <<sessionVars, channelVars, mounted, startRequests, domainVars, ops>>

\* A reconnect timer elapses.
ConnectWebSocket ==
  /\ connectWebSocket
  /\ UNCHANGED attempts

\* A reconnect timer elapses, the call of connectWebSocket being observed.
Reconnect ==
  /\ connectWebSocket
  /\ attempts' = ~attempts

\* The `ws` the cleanup of the mount effect closed over: the effect has the
\* dependency list [], so it is the initial value of useState(null).
CleanupWs == Null

\* The component unmounts: the cleanups of its two effects run,
\* `if (ws) ws.close()` and clearTimeout(debounceTimer).  Callbacks of
\* sockets and timers that are still alive keep running afterwards.
Unmount ==
  /\ mounted
  /\ mounted' = FALSE
  /\ sockets' = IF CleanupWs # Null THEN <<>> ELSE sockets
  /\ debounceTimers' = {}
  /\ UNCHANGED <<sessionVars, channelVars, wsConnected, reconnectTimers, attempts,
                 startRequests, domainDetectionLoading, inferenceRequests, ops>>

\* --------------------------------------------------------- user commands
GoalTexts == {"", "  ", " goal "}

\* textarea onChange={(e) => setResearchGoal(e.target.value)}, disabled={isStarted}
SetResearchGoal(text) ==
  /\ ~isStarted
  /\ text # researchGoal
  /\ researchGoal' = text
  /\ UNCHANGED <<sessionId, hypotheses, isStarted, error, sessionStatus,
                 domainContext, maxIterations, hypothesesPerIteration,
                 channelVars, transportVars, startRequests, ops>>
  /\ DetectDomainEffect

\* Date.now() values a start can read; the id is `session_${Date.now()}`.
Timestamps == {1, 2}
SessionIdOf(t) ==
  CASE t = 1 -> "session_1"
    [] t = 2 -> "session_2"

\* body: JSON.stringify({research_goal, session_id, max_iterations,
\* hypotheses_per_iteration}) of the start request.
StartBody(id) ==
  [research_goal |-> researchGoal, session_id |-> id,
   max_iterations |-> maxIterations,
   hypotheses_per_iteration |-> hypothesesPerIteration]

\* Variant: the connection is not looked at before starting.
startResearch_NoConnectionCheck(t) ==
  IF Trim(researchGoal) = ""
  THEN /\ error' = "Please enter a research goal"
       /\ UNCHANGED <<sessionId, hypotheses, isStarted, sessionStatus, startRequests>>
  ELSE /\ error' = Null
       /\ isStarted' = TRUE
       /\ sessionStatus' = "running"
       /\ hypotheses' = <<>>
       /\ sessionId' = SessionIdOf(t)
       /\ startRequests' = Append(startRequests, StartBody(SessionIdOf(t)))

\* Variant: a start keeps the hypotheses of the previous session.
startResearch_KeepHypotheses(t) ==
  IF Trim(researchGoal) = ""
  THEN /\ error' = "Please enter a research goal"
       /\ UNCHANGED <<sessionId, hypotheses, isStarted, sessionStatus, startRequests>>
  ELSE IF ~wsConnected
  THEN /\ error' = "WebSocket not connected. Please wait and try again."
       /\ UNCHANGED <<sessionId, hypotheses, isStarted, sessionStatus, startRequests>>
  ELSE /\ error' = Null
       /\ isStarted' = TRUE
       /\ sessionStatus' = "running"
       /\ UNCHANGED hypotheses
       /\ sessionId' = SessionIdOf(t)
       /\ startRequests' = Append(startRequests, StartBody(SessionIdOf(t)))

\* startResearch up to its await: the two refusals, or the state reset and
\* the POST /api/research/start being issued.
startResearch(t) ==
  IF Trim(researchGoal) = ""
  THEN /\ error' = "Please enter a research goal"
       /\ UNCHANGED <<sessionId, hypotheses, isStarted, sessionStatus, startRequests>>
  ELSE IF ~wsConnected
  THEN /\ error' = "WebSocket not connected. Please wait and try again."
       /\ UNCHANGED <<sessionId, hypotheses, isStarted, sessionStatus, startRequests>>
  ELSE /\ error' = Null
       /\ isStarted' = TRUE
       /\ sessionStatus' = "running"
       /\ hypotheses' = <<>>
       /\ sessionId' = SessionIdOf(t)
       /\ startRequests' = Append(startRequests, StartBody(SessionIdOf(t)))

\* The Start button: rendered while !isStarted,
\* disabled={!researchGoal.trim() || !wsConnected}.
ClickStart(t) ==
  /\ ~isStarted
  /\ Trim(researchGoal) # ""
  /\ wsConnected
  /\ ops < MaxOps
  /\ ops' = ops + 1
  /\ startResearch(t)
  /\ UNCHANGED <<researchGoal, domainContext, maxIterations, hypothesesPerIteration,
                 iteration, currentAgent, progress, isRunning, transportVars>>
  /\ DetectDomainEffect

\* The start request resolves with a 2xx response: only console.log.
StartSucceeds(i) ==
  /\ i \in 1..Len(startRequests)
  /\ startRequests' = RemoveAt(startRequests, i)
  /\ UNCHANGED <<sessionVars, channelVars, transportVars, domainVars, ops>>

StartFailures == {"HTTP error! status: 500", "Failed to fetch"}

\* The start request rejects or is not ok: the catch block.
StartFails(i, msg) ==
  /\ i \in 1..Len(startRequests)
  /\ startRequests' = RemoveAt(startRequests, i)
  /\ error' = msg
  /\ isStarted' = FALSE
  /\ sessionStatus' = "error"
  /\ UNCHANGED <<sessionId, researchGoal, hypotheses, domainContext, maxIterations,
                 hypothesesPerIteration, channelVars, transportVars, ops>>
  /\ DetectDomainEffect

\* Variant: a stop leaves the progress entries as they are.
stopResearch_KeepProgress ==
  /\ isStarted' = FALSE
  /\ sessionStatus' = "idle"
  /\ isRunning' = FALSE
  /\ currentAgent' = ""
  /\ iteration' = 0
  /\ UNCHANGED <<sessionId, researchGoal, hypotheses, error, domainContext,
                 maxIterations, hypothesesPerIteration, progress>>

stopResearch ==
  /\ isStarted' = FALSE
  /\ sessionStatus' = "idle"
  /\ isRunning' = FALSE
  /\ progress' = AllPending
  /\ currentAgent' = ""
  /\ iteration' = 0
  /\ UNCHANGED <<sessionId, researchGoal, hypotheses, error, domainContext,
                 maxIterations, hypothesesPerIteration>>

\* The Stop button is rendered in place of Start while isStarted.
ClickStop ==
  /\ isStarted
  /\ ops < MaxOps
  /\ ops' = ops + 1
  /\ stopResearch
  /\ UNCHANGED <<transportVars, startRequests>>
  /\ DetectDomainEffect

\* Variant: a reset keeps the configuration the user entered.
resetSession_KeepConfig ==
  /\ sessionId' = Null
  /\ researchGoal' = ""
  /\ hypotheses' = <<>>
  /\ isStarted' = FALSE
  /\ error' = Null
  /\ sessionStatus' = "idle"
  /\ isRunning' = FALSE
  /\ progress' = AllPending
  /\ currentAgent' = ""
  /\ iteration' = 0
  /\ domainContext' = NoContext
  /\ UNCHANGED <<maxIterations, hypothesesPerIteration>>

resetSession ==
  /\ sessionId' = Null
  /\ researchGoal' = ""
  /\ hypotheses' = <<>>
  /\ isStarted' = FALSE
  /\ error' = Null
  /\ sessionStatus' = "idle"
  /\ isRunning' = FALSE
  /\ progress' = AllPending
  /\ currentAgent' = ""
  /\ iteration' = 0
  /\ domainContext' = NoContext
  /\ maxIterations' = 3
  /\ hypothesesPerIteration' = 1

\* The Reset button, disabled={isStarted}.
ClickReset ==
  /\ ~isStarted
  /\ ops < MaxOps
  /\ ops' = ops + 1
  /\ resetSession
  /\ UNCHANGED <<transportVars, startRequests>>
  /\ DetectDomainEffect

\* ------------------------------------------------- parameter inputs
\* What the user can leave in a number input: nothing, "0", a value inside
\* both ranges, a value above both ranges.
ConfigTexts == {"", "0", "5", "11"}

\* parseInt(e.target.value) || 1: NaN and 0 are falsy.
ParseIntOrOne(text) ==
  CASE text = "" -> 1
    [] text = "0" -> 1
    [] text = "5" -> 5
    [] text = "11" -> 11

\* onChange of the Max Iterations input, disabled={isStarted}.
SetMaxIterations(text) ==
  /\ ~isStarted
  /\ ops < MaxOps
  /\ ops' = ops + 1
  /\ maxIterations' = ParseIntOrOne(text)
  /\ UNCHANGED <<sessionId, researchGoal, hypotheses, isStarted, error,
                 sessionStatus, domainContext, hypothesesPerIteration,
                 channelVars, transportVars, startRequests, domainVars>>

\* onChange of the Hypotheses Per Iteration input, disabled={isStarted}.
SetHypothesesPerIteration(text) ==
  /\ ~isStarted
  /\ ops < MaxOps
  /\ ops' = ops + 1
  /\ hypothesesPerIteration' = ParseIntOrOne(text)
  /\ UNCHANGED <<sessionId, researchGoal, hypotheses, isStarted, error,
                 sessionStatus, domainContext, maxIterations,
                 channelVars, transportVars, startRequests, domainVars>>

\* ------------------------------------------------------ domain detection
\* researchGoal.trim().length > 15
MinGoalLength == 15

getDefaultDomainContext ==
  [domain |-> "general", expert_role |-> "scientific researcher",
   research_focus |-> "scientific research",
   hypothesis_type |-> "research hypothesis"]

\* A context the detect-domain endpoint answers with.
DetectedContexts ==
  { [domain |-> "biology", expert_role |-> "molecular biologist",
     research_focus |-> "protein folding",
     hypothesis_type |-> "mechanistic hypothesis"] }

\* Variant: the started flag is not looked at.
detectDomain_IgnoresStarted(c) ==
  IF Length(Trim(c.researchGoal)) > MinGoalLength
  THEN /\ Len(inferenceRequests) < MaxInference
       /\ domainDetectionLoading' = TRUE
       /\ inferenceRequests' =
            Append(inferenceRequests, [research_question |-> c.researchGoal])
       /\ UNCHANGED domainContext
  ELSE /\ domainContext' = NoContext
       /\ UNCHANGED <<domainDetectionLoading, inferenceRequests>>

\* detectDomain up to its await, with the researchGoal and isStarted of the
\* render that armed the timer.
detectDomain(c) ==
  IF Length(Trim(c.researchGoal)) > MinGoalLength /\ ~c.isStarted
  THEN /\ Len(inferenceRequests) < MaxInference
       /\ domainDetectionLoading' = TRUE
       /\ inferenceRequests' =
            Append(inferenceRequests, [research_question |-> c.researchGoal])
       /\ UNCHANGED domainContext
  ELSE IF Length(Trim(c.researchGoal)) <= MinGoalLength
  THEN /\ domainContext' = NoContext
       /\ UNCHANGED <<domainDetectionLoading, inferenceRequests>>
  ELSE UNCHANGED <<domainContext, domainDetectionLoading, inferenceRequests>>

\* The 1000 ms timer of a render elapses.
DebounceFires(c) ==
  /\ c \in debounceTimers
  /\ debounceTimers' = debounceTimers \ {c}
  /\ detectDomain(c)
  /\ UNCHANGED <<sessionId, researchGoal, hypotheses, isStarted, error,
                 sessionStatus, maxIterations, hypothesesPerIteration,
                 channelVars, transportVars, startRequests, ops>>

\* How a detect-domain request ends: a 2xx response with a JSON body, a
\* non-2xx response, a rejected fetch, a 2xx response whose body is not JSON.
InferenceOutcomes == {"ok", "not_ok", "network_error", "bad_json"}

\* detectDomain after its await: if (response.ok) setDomainContext(domain);
\* catch: setDomainContext(getDefaultDomainContext()); finally: loading off.
InferenceResponds(i, outcome, domain) ==
  /\ i \in 1..Len(inferenceRequests)
  /\ inferenceRequests' = RemoveAt(inferenceRequests, i)
  /\ domainContext' =
       CASE outcome = "ok" -> domain
         [] outcome = "not_ok" -> domainContext
         [] OTHER -> getDefaultDomainContext
  /\ domainDetectionLoading' = FALSE
  /\ UNCHANGED <<sessionId, researchGoal, hypotheses, isStarted, error,
                 sessionStatus, maxIterations, hypothesesPerIteration,
                 channelVars, transportVars, startRequests, debounceTimers, ops>>

\* ------------------------------------------- commands of the controller
\* startResearch, stopResearch and resetSession as functions, applied in any
\* state (the buttons above apply them only where they are enabled).
StartCommand(t) ==
  /\ ops < MaxOps
  /\ ops' = ops + 1
  /\ startResearch(t)
  /\ UNCHANGED <<researchGoal, domainContext, maxIterations, hypothesesPerIteration,
                 iteration, currentAgent, progress, isRunning, transportVars>>
  /\ DetectDomainEffect

StopCommand ==
  /\ ops < MaxOps
  /\ ops' = ops + 1
  /\ stopResearch
  /\ UNCHANGED <<transportVars, startRequests>>
  /\ DetectDomainEffect

ResetCommand ==
  /\ ops < MaxOps
  /\ ops' = ops + 1
  /\ resetSession
  /\ UNCHANGED <<transportVars, startRequests>>
  /\ DetectDomainEffect

Next ==
  \/ \E f \in Frames : OnMessage(f)
  \/ \E i \in DOMAIN sockets : OnOpen(i)
  \/ \E i \in DOMAIN sockets : OnError(i)
  \/ \E i \in DOMAIN sockets : OnClose(i)
  \/ ConnectWebSocket
  \/ \E text \in GoalTexts : SetResearchGoal(text)
  \/ \E t \in Timestamps : ClickStart(t)
  \/ \E i \in 1..MaxOps : StartSucceeds(i)
  \/ \E i \in 1..MaxOps, msg \in StartFailures : StartFails(i, msg)
  \/ ClickStop
  \/ ClickReset

Spec == Init /\ [][Next]_vars

\* An empty goal, a blank one, and one long enough for domain detection.
CommandGoalTexts == {"", "  ", "twenty characters!!!"}

\* The frames that change what the commands read or clear.
CommandFrames ==
  { [decodes |-> TRUE, message |-> m] :
      m \in { AgentUpdate("generation", "running", NoData),
              AgentUpdate("generation", "completed",
                          [EmptyData EXCEPT !.hypothesis =
                             <<[id |-> "h1", iteration |-> 1,
                                review |-> NoReview, score |-> NoScore]>>]),
              SessionUpdate("iteration_start", [EmptyData EXCEPT !.iteration = 1]),
              SessionUpdate("research_error", [EmptyData EXCEPT !.error = "boom"]) } }

\* The controller with its parameter inputs, its commands and the domain
\* detection.
NextCommands ==
  \/ \E f \in CommandFrames : OnMessage(f)
  \/ \E i \in DOMAIN sockets : OnOpen(i)
  \/ \E i \in DOMAIN sockets : OnClose(i)
  \/ ConnectWebSocket
  \/ \E text \in CommandGoalTexts : SetResearchGoal(text)
  \/ \E text \in ConfigTexts : SetMaxIterations(text)
  \/ \E text \in ConfigTexts : SetHypothesesPerIteration(text)
  \/ \E c \in debounceTimers : DebounceFires(c)
  \/ \E i \in 1..MaxInference, outcome \in InferenceOutcomes,
        domain \in DetectedContexts : InferenceResponds(i, outcome, domain)
  \/ \E t \in Timestamps : StartCommand(t)
  \/ \E i \in 1..MaxOps : StartSucceeds(i)
  \/ \E i \in 1..MaxOps, msg \in StartFailures : StartFails(i, msg)
  \/ StopCommand
  \/ ResetCommand

SpecCommands == Init /\ [][NextCommands]_vars

\* Goal texts on both sides of the detection threshold: 10, 15 (19 before
\* trimming), 16 and 20 characters.
DomainGoalTexts ==
  {"", "ten chars!", "  fifteen chars !  ", "sixteen chars !!",
   "twenty characters!!!"}

\* The goal textarea, the buttons and the domain detection.
NextDomain ==
  \/ \E i \in DOMAIN sockets : OnOpen(i)
  \/ \E text \in DomainGoalTexts : SetResearchGoal(text)
  \/ \E c \in debounceTimers : DebounceFires(c)
  \/ \E i \in 1..MaxInference, outcome \in InferenceOutcomes,
        domain \in DetectedContexts : InferenceResponds(i, outcome, domain)
  \/ \E t \in Timestamps : ClickStart(t)
  \/ \E i \in 1..MaxOps : StartSucceeds(i)
  \/ \E i \in 1..MaxOps, msg \in StartFailures : StartFails(i, msg)
  \/ ClickStop
  \/ ClickReset

SpecDomain == Init /\ [][NextDomain]_vars

\* ------------------------------------------------------------ properties
Frame(m) == [decodes |-> TRUE, message |-> m]
GenerationCompleted(h) ==
  AgentUpdate("generation", "completed", [EmptyData EXCEPT !.hypothesis = <<h>>])
ReflectionCompleted(r) ==
  AgentUpdate("reflection", "completed", [EmptyData EXCEPT !.review = r])
RankingCompleted(l) ==
  AgentUpdate("ranking", "completed", [EmptyData EXCEPT !.hasRanked = TRUE, !.ranked = l])
IterationStart(n) ==
  SessionUpdate("iteration_start", [EmptyData EXCEPT !.iteration = n])
ResearchError(e) ==
  SessionUpdate("research_error", [EmptyData EXCEPT !.error = e])

Indices(list) == 1..Len(list)
IdsOf(list) == { list[i].id : i \in Indices(list) }
Occurrences(list, id) == Cardinality({ i \in Indices(list) : list[i].id = id })
\* A review object whose review text and score are both given (truthy).
FullReviews ==
  { r \in ReviewPayloads : r.kind = "object" /\ TruthyString(r.review) /\ TruthyScore(r.score) }
Ready == completedHypotheses(hypotheses)

\* C1: once iteration_start has made the current iteration n and a
\* generation-completed update has then stored hypothesis h of iteration n
\* (generation is the current agent, its progress is completed, h is stored
\* and processing), a reflection-completed update carrying review r
\* and score s leaves h in the ready subset exactly once, with review r,
\* score s and isProcessing false.
C1_ReflectionMakesReady ==
  [][ \A h \in GenPayloads, r \in FullReviews :
        ( /\ iteration >= 1
          /\ h.iteration = iteration
          /\ currentAgent = "generation"
          /\ progress["generation"] = "completed"
          /\ \E i \in Indices(hypotheses) : hypotheses[i] = Stored(h, TRUE)
          /\ Occurrences(hypotheses, h.id) = 1
          /\ OnMessage(Frame(ReflectionCompleted(r))) )
        => LET ready == completedHypotheses(hypotheses')
           IN /\ Occurrences(ready, h.id) = 1
              /\ \A i \in Indices(ready) :
                   ready[i].id = h.id =>
                     /\ ready[i].review = r.review
                     /\ ready[i].score = r.score
                     /\ ~ready[i].isProcessing ]_vars

\* C2: a reflection-completed update keeps the collection's length and leaves
\* every stored hypothesis that is of another iteration than the current one,
\* or that is already not processing, exactly as it was.
C2_ReflectionFrame ==
  [][ \A d \in ReflectionData :
        OnMessage(Frame(AgentUpdate("reflection", "completed", d)))
        => /\ Len(hypotheses') = Len(hypotheses)
           /\ \A i \in Indices(hypotheses) :
                (hypotheses[i].iteration # iteration \/ ~hypotheses[i].isProcessing)
                => hypotheses'[i] = hypotheses[i] ]_vars

\* A reflection-completed update was the last agent update handled while the
\* store held a processing hypothesis of another iteration next to one that
\* is no longer processing.
C2_Witness ==
  /\ currentAgent = "reflection"
  /\ progress["reflection"] = "completed"
  /\ \E i \in Indices(hypotheses) :
       hypotheses[i].isProcessing /\ hypotheses[i].iteration # iteration
  /\ \E i \in Indices(hypotheses) : ~hypotheses[i].isProcessing

NonProcessing(list, id) == \E i \in Indices(list) : list[i].id = id /\ ~list[i].isProcessing
Processing(list, id) == \E i \in Indices(list) : list[i].id = id /\ list[i].isProcessing

\* C4: a hypothesis identifier that is stored and not processing is not
\* processing after any single step, and it leaves the collection only by a
\* ranking replacement or by the collection being cleared for a new session
\* (start, reset).  So within a session a second true->false change of the
\* same identifier needs a ranking replacement that dropped it in between.
C4_ProcessingNeverReverts ==
  [][ \A id \in HypIds :
        NonProcessing(hypotheses, id)
        => /\ ~Processing(hypotheses', id)
           /\ id \notin IdsOf(hypotheses')
              => \/ \E l \in RankedLists : OnMessage(Frame(RankingCompleted(l)))
                 \/ \E t \in Timestamps : ClickStart(t)
                 \/ ClickReset ]_vars

\* A generation-completed update was handled after a ranking update had made
\* a hypothesis non-processing: the generated one is stored behind it.
C4_Witness ==
  /\ currentAgent = "generation"
  /\ progress["generation"] = "completed"
  /\ \E i, j \in Indices(hypotheses) :
       i < j /\ ~hypotheses[i].isProcessing /\ hypotheses[j].isProcessing

\* C5: the collection holds at most one record per hypothesis identifier.
C5_UniqueIds == \A id \in HypIds : Occurrences(hypotheses, id) <= 1

\* Generation and ranking updates have interleaved: two identifiers are
\* stored, the first from a ranking update, the second generated after it.
C5_Witness ==
  /\ Len(hypotheses) = 2
  /\ ~hypotheses[1].isProcessing
  /\ hypotheses[2].isProcessing
  /\ ops = MaxOps

\* C6: a ranking-completed update carrying ranked_hypotheses makes the
\* collection the payload, record for record and in the payload's order,
\* every record not processing; no identifier absent from the payload stays.
C6_RankingReplaces ==
  [][ \A l \in RankedLists :
        OnMessage(Frame(RankingCompleted(l)))
        => /\ Len(hypotheses') = Len(l)
           /\ IdsOf(hypotheses') = IdsOf(l)
           /\ \A i \in Indices(l) :
                /\ hypotheses'[i].id = l[i].id
                /\ hypotheses'[i].iteration = l[i].iteration
                /\ hypotheses'[i].review = l[i].review
                /\ hypotheses'[i].score = l[i].score
                /\ ~hypotheses'[i].isProcessing ]_vars

\* A ranking-completed update with two ranked hypotheses was the last agent
\* update handled.
C6_Witness ==
  /\ currentAgent = "ranking"
  /\ progress["ranking"] = "completed"
  /\ Len(hypotheses) = 2
  /\ \A i \in Indices(hypotheses) : ~hypotheses[i].isProcessing

RankedStored(l) == [i \in Indices(l) |-> Stored(l[i], FALSE)]

\* C7: in the state a ranking-completed message has left (ranking is the
\* current agent and completed, the collection is the message's list),
\* handling the same message again changes neither the collection nor the
\* ready subset.
C7_RankingIdempotent ==
  [][ \A l \in RankedLists :
        ( /\ currentAgent = "ranking"
          /\ progress["ranking"] = "completed"
          /\ hypotheses = RankedStored(l)
          /\ OnMessage(Frame(RankingCompleted(l))) )
        => /\ hypotheses' = hypotheses
           /\ completedHypotheses(hypotheses') = completedHypotheses(hypotheses) ]_vars

\* At least two messages were handled, the last agent update was a
\* ranking-completed one, and the ready subset it left is not empty.
C7_Witness ==
  /\ ops >= 2
  /\ currentAgent = "ranking"
  /\ progress["ranking"] = "completed"
  /\ hypotheses # <<>>
  /\ Ready # <<>>
  /\ \E l \in RankedLists : hypotheses = RankedStored(l)

\* C8: an iteration_start update carrying iteration n (1..MaxIteration) sets
\* the current iteration to n and every progress entry to pending.
C8_IterationStartResets ==
  [][ \A n \in Iterations :
        OnMessage(Frame(IterationStart(n)))
        => /\ iteration' = n
           /\ progress' = AllPending ]_vars

\* The last iteration was announced after an agent had reported running.
C8_Witness ==
  /\ iteration = MaxIteration
  /\ progress = AllPending
  /\ currentAgent \in AgentKeys
  /\ isRunning

\* C9: a research_error update carrying error e sets status error, stores e,
\* clears the running and the started flag and leaves the collection and the
\* ready subset unchanged.
C9_ResearchError ==
  [][ OnMessage(Frame(ResearchError("boom")))
      => /\ sessionStatus' = "error"
         /\ error' = "boom"
         /\ ~isRunning'
         /\ ~isStarted'
         /\ hypotheses' = hypotheses
         /\ completedHypotheses(hypotheses') = completedHypotheses(hypotheses) ]_vars

\* The error of a started session was reported while a hypothesis was ready.
C9_Witness ==
  /\ sessionStatus = "error"
  /\ error = "boom"
  /\ sessionId # Null
  /\ ~isStarted
  /\ ~isRunning
  /\ Ready # <<>>

\* C10: a research_completed update sets status completed, every progress
\* entry to completed, and clears the running and the started flag.
C10_ResearchCompleted ==
  [][ OnMessage(Frame(SessionUpdate("research_completed", EmptyData)))
      => /\ sessionStatus' = "completed"
         /\ progress' = AllCompleted
         /\ ~isRunning'
         /\ ~isStarted' ]_vars

\* A started session was reported completed.
C10_Witness ==
  /\ sessionStatus = "completed"
  /\ progress = AllCompleted
  /\ sessionId # Null
  /\ ~isStarted
  /\ ~isRunning

\* ------------------------------------------------------------- commands
ValidationErrors ==
  {"Please enter a research goal",
   "WebSocket not connected. Please wait and try again."}

\* C11: a start command issued while the trimmed goal text is empty or the
\* transport is disconnected is refused: the error becomes a validation
\* message, no start request is issued, and session id, status, started flag
\* and hypotheses stay as they were.
C11_StartRefused ==
  [][\A t \in Timestamps :
       StartCommand(t) /\ (Trim(researchGoal) = "" \/ ~wsConnected)
         => /\ error' \in ValidationErrors
            /\ UNCHANGED <<startRequests, sessionId, sessionStatus, isStarted,
                           hypotheses>>]_vars

\* A start was refused for the connection alone, with a hypothesis stored.
C11_Witness ==
  /\ error = "WebSocket not connected. Please wait and try again."
  /\ Trim(researchGoal) # ""
  /\ ~wsConnected
  /\ Len(hypotheses) = 1
  /\ startRequests = <<>>
  /\ ~isStarted

\* C12: a start command with a non-empty trimmed goal while the transport is
\* connected assigns the id session_<timestamp>, empties the hypotheses,
\* clears the error, sets status running and the started flag, and issues
\* exactly one start request carrying the goal, that id and the current
\* max_iterations and hypotheses_per_iteration.
C12_StartAccepted ==
  [][\A t \in Timestamps :
       StartCommand(t) /\ Trim(researchGoal) # "" /\ wsConnected
         => /\ sessionId' = SessionIdOf(t)
            /\ hypotheses' = <<>>
            /\ error' = Null
            /\ sessionStatus' = "running"
            /\ isStarted'
            /\ startRequests' =
                 Append(startRequests,
                        [research_goal |-> researchGoal,
                         session_id |-> sessionId',
                         max_iterations |-> maxIterations,
                         hypotheses_per_iteration |-> hypothesesPerIteration])]_vars

\* A start went out with a configuration the user had edited.
C12_Witness ==
  /\ isStarted
  /\ sessionStatus = "running"
  /\ error = Null
  /\ hypotheses = <<>>
  /\ Len(startRequests) = 1
  /\ startRequests[1].session_id = sessionId
  /\ startRequests[1].research_goal = researchGoal
  /\ startRequests[1].max_iterations = 5

\* C13: when a start request fails, the failure message becomes the session
\* error, status becomes error, and the started flag and the running flag
\* are both false afterwards, whatever was received meanwhile.
C13_StartFailureClearsFlags ==
  [][\A i \in 1..MaxOps, msg \in StartFailures :
       StartFails(i, msg)
         => /\ error' = msg
            /\ sessionStatus' = "error"
            /\ ~isStarted'
            /\ ~isRunning']_vars

\* C14: a stop command sets status idle, clears the started and the running
\* flag, resets the three progress entries to pending, clears the current
\* agent and sets the iteration to 0.
C14_Stop ==
  [][ClickStop
       => /\ sessionStatus' = "idle"
          /\ ~isStarted'
          /\ ~isRunning'
          /\ progress' = AllPending
          /\ currentAgent' = ""
          /\ iteration' = 0]_vars

\* A session that was started and received a message has been stopped: only
\* a stop returns a session that has an id to idle.
C14_Witness ==
  /\ sessionId # Null
  /\ sessionStatus = "idle"
  /\ ~isStarted
  /\ ~isRunning
  /\ progress = AllPending
  /\ currentAgent = ""
  /\ iteration = 0
  /\ ops = MaxOps

\* The state a reset leaves in the cells it writes.
ResetState ==
  /\ sessionStatus = "idle"
  /\ sessionId = Null
  /\ researchGoal = ""
  /\ hypotheses = <<>>
  /\ error = Null
  /\ domainContext = NoContext
  /\ currentAgent = ""
  /\ iteration = 0
  /\ progress = AllPending
  /\ maxIterations = 3
  /\ hypothesesPerIteration = 1
  /\ ~isStarted
  /\ ~isRunning

\* C15: a reset command, from any state, leaves status idle, no session id,
\* goal, hypotheses, error, domain context, current agent or iteration,
\* all-pending progress and the default configuration 3 / 1; a reset applied
\* to the state a reset leaves changes nothing.
C15_Reset ==
  [][ResetCommand
       => /\ ResetState'
          /\ (ResetState =>
                UNCHANGED <<sessionVars, channelVars, transportVars,
                            startRequests, domainVars>>)]_vars

\* A reset was applied while a start request was outstanding: only a reset
\* takes the session id away again.
C15_Witness ==
  /\ ResetState
  /\ Len(startRequests) = 1

\* C16: in every reachable state and in every start request issued,
\* max_iterations is in 1..10 and hypotheses_per_iteration is in 1..5.
C16_ConfigBounds ==
  /\ maxIterations \in 1..10
  /\ hypothesesPerIteration \in 1..5
  /\ \A i \in 1..Len(startRequests) :
       /\ startRequests[i].max_iterations \in 1..10
       /\ startRequests[i].hypotheses_per_iteration \in 1..5

\* ------------------------------------------------------ dropped frames
\* Frames that fail to decode, carry an unknown type, or are session updates
\* with an unknown event_type.
DroppedFrames ==
  { f \in Frames :
      \/ ~f.decodes
      \/ f.message.type \notin {"agent_update", "session_update"}
      \/ /\ f.message.type = "session_update"
         /\ f.message.event_type \notin
              {"research_started", "iteration_start", "research_completed",
               "research_error"} }

\* C17: a frame that fails to decode, a message whose type is neither
\* agent_update nor session_update, and a session_update with an unknown
\* event_type each leave every state cell of the controller unchanged.
C17_DroppedFrames ==
  [][\A f \in DroppedFrames :
       OnMessage(f)
         => UNCHANGED <<sessionVars, channelVars, transportVars, startRequests,
                        domainVars>>]_vars

\* Frames were handled on an open channel and nothing has changed.
C17_Witness ==
  /\ ops = MaxOps
  /\ channel = "open"
  /\ wsConnected
  /\ sessionStatus = "idle"
  /\ sessionId = Null
  /\ researchGoal = ""
  /\ hypotheses = <<>>
  /\ error = Null
  /\ progress = AllPending
  /\ currentAgent = ""
  /\ iteration = 0
  /\ ~isRunning

\* ----------------------------------------------------- domain detection
LongGoal(g) == Length(Trim(g)) > MinGoalLength

\* C18: when the goal text shrinks from more than 15 trimmed characters to
\* 15 or fewer while the debounce timer of the long text is still pending,
\* that timer is cleared without a request being issued, and the timer that
\* then elapses for the short text issues no request and sets the domain
\* context to null.
C18_ShrinkBeforeWindow ==
  [][/\ \A text \in DomainGoalTexts :
          ( /\ SetResearchGoal(text)
            /\ \E c \in debounceTimers : LongGoal(c.researchGoal)
            /\ ~LongGoal(text) )
            => /\ UNCHANGED inferenceRequests
               /\ debounceTimers' = {Closure(text, isStarted)}
      /\ \A c \in debounceTimers :
          (DebounceFires(c) /\ ~LongGoal(c.researchGoal))
            => /\ UNCHANGED inferenceRequests
               /\ domainContext' = NoContext]_vars

\* The timer of the 10-character text has elapsed: no request is out, no
\* timer is pending and the context is null.
C18_Witness ==
  /\ researchGoal = "ten chars!"
  /\ debounceTimers = {}
  /\ inferenceRequests = <<>>
  /\ ~domainDetectionLoading
  /\ domainContext = NoContext

\* C19: when a detection request fails, by a network error or by a non-2xx
\* response, the domain context becomes the default context and the session
\* error is not touched.
C19_FailureGivesDefault ==
  [][\A i \in 1..MaxInference, outcome \in {"network_error", "not_ok"},
        domain \in DetectedContexts :
       InferenceResponds(i, outcome, domain)
         => /\ domainContext' = getDefaultDomainContext
            /\ error' = error]_vars

\* --------------------------------------------------------- ready subset
\* Hypotheses as a ranking update can carry them: with or without a review
\* (absent, empty, text) and a score (absent, zero, 0.9).
StoreRankPayloads ==
  [id : HypIds, iteration : {1}, review : {NoReview, "", "good"},
   score : {NoScore, 0, 9}]

StoreRankedLists ==
  { <<a>> : a \in StoreRankPayloads }
    \cup { p \in StoreRankPayloads \X StoreRankPayloads : p[1].id # p[2].id }

StoreFrames ==
  { Frame(GenerationCompleted(h)) : h \in GenPayloads }
    \cup { Frame(RankingCompleted(l)) : l \in StoreRankedLists }

\* The hypothesis store fed by generation and ranking updates.
NextStore ==
  \/ \E i \in DOMAIN sockets : OnOpen(i)
  \/ \E f \in StoreFrames : OnMessage(f)

SpecStore == Init /\ [][NextStore]_vars

\* C20: the ready subset holds exactly the stored hypotheses that are not
\* processing and have a truthy review and a truthy score: one that is
\* processing, has no review, or has a missing or zero score is not in it,
\* every other stored hypothesis is, and it holds nothing else.
C20_ReadySubset ==
  LET ready == completedHypotheses(hypotheses)
      InReady(h) == \E j \in 1..Len(ready) : ready[j] = h
  IN /\ \A i \in 1..Len(hypotheses) :
          InReady(hypotheses[i])
            <=> ~( \/ hypotheses[i].isProcessing
                   \/ hypotheses[i].review \in {NoReview, Null, ""}
                   \/ hypotheses[i].score \in {NoScore, 0} )
     /\ \A j \in 1..Len(ready) :
          \E i \in 1..Len(hypotheses) : hypotheses[i] = ready[j]

\* Two hypotheses are stored, both reviewed and not processing; the one with
\* the zero score is left out of the ready subset.
C20_Witness ==
  /\ Len(hypotheses) = 2
  /\ Len(completedHypotheses(hypotheses)) = 1
  /\ \E i \in 1..2 :
       /\ ~hypotheses[i].isProcessing
       /\ hypotheses[i].review = "good"
       /\ hypotheses[i].score = 0

\* ------------------------------------------------------------ transport
\* The channel manager: socket events, reconnect timers, a few frames and
\* the teardown of the component.
NextTransport ==
  \/ \E i \in DOMAIN sockets : OnOpen(i)
  \/ \E i \in DOMAIN sockets : OnError(i)
  \/ \E i \in DOMAIN sockets : OnClose(i)
  \/ Reconnect
  \/ \E f \in CommandFrames : OnMessage(f)
  \/ Unmount

SpecTransport == Init /\ [][NextTransport]_vars

\* A pending timer elapses eventually.
SpecTransportLive == SpecTransport /\ WF_vars(Reconnect)

LiveSockets == { i \in DOMAIN sockets : sockets[i] \in {"connecting", "open"} }

\* C28: whenever no channel is live (after a close or a construction
\* failure) connected is false and a reconnect is scheduled, a further
\* connection attempt is eventually made however many attempts have failed,
\* and a channel that opens publishes connected = true.
C28_Reconnects ==
  /\ [](LiveSockets = {} => ~wsConnected /\ reconnectTimers > 0)
  /\ \A b \in BOOLEAN : (LiveSockets = {} /\ attempts = b) ~> (attempts # b)
  /\ [][\A i \in DOMAIN sockets : OnOpen(i) => wsConnected']_vars

\* A channel closed, the attempt that followed failed, and the retry is
\* scheduled.
C28_Witness ==
  /\ sockets = <<>>
  /\ reconnectTimers = 1
  /\ ~wsConnected
  /\ attempts
  /\ ops > 0

\* C29: at any time at most one channel instance is connecting or open.
C29_OneChannel == Cardinality(LiveSockets) <= 1

\* A second channel was built after the first one failed and closed, and it
\* is open.
C29_Witness ==
  /\ sockets = <<"open">>
  /\ wsConnected
  /\ attempts
  /\ ops >= 2

\* C30: after teardown no channel built by the controller is connecting or
\* open.
C30_ClosedOnTeardown == ~mounted => LiveSockets = {}

\* ------------------------------------------------------ hypothesis cards
\* In this section scores are in millionths: 800000 stands for 0.8 and
\* 799999 for 0.799999.
CardIds == {"h1", "h2", "h3"}
CardScores == {100000, 399999, 400000, 599999, 600000, 799999, 800000, 1000000}
\* Scores of the hypotheses of a ranked list of several: two values, so that
\* lists have ties and inversions.
SortScores == {799999, 800000}

CardPayload(id, score) ==
  [id |-> id, iteration |-> 1, review |-> "good", score |-> score]

CardLists ==
  { <<CardPayload(id, sc)>> : id \in CardIds, sc \in CardScores }
    \cup { <<CardPayload(p[1], q[1]), CardPayload(p[2], q[2])>> :
             p \in { x \in CardIds \X CardIds : x[1] # x[2] },
             q \in SortScores \X SortScores }
    \cup { <<CardPayload(p[1], q[1]), CardPayload(p[2], q[2]),
              CardPayload(p[3], q[3])>> :
             p \in { x \in CardIds \X CardIds \X CardIds :
                       x[1] # x[2] /\ x[1] # x[3] /\ x[2] # x[3] },
             q \in SortScores \X SortScores \X SortScores }

CardFrames == { Frame(RankingCompleted(l)) : l \in CardLists }

\* (a, b) => (b.score || 0) - (a.score || 0)
ScoreOrZero(sc) == IF TruthyScore(sc) THEN sc ELSE 0
CompareScore(a, b) == ScoreOrZero(b.score) - ScoreOrZero(a.score)

\* Variant: an element is placed before the elements it compares equal to.
RECURSIVE InsertSorted_BeforeEqual(_, _)
InsertSorted_BeforeEqual(sorted, e) ==
  IF sorted = <<>> THEN <<e>>
  ELSE IF CompareScore(Head(sorted), e) < 0
       THEN <<Head(sorted)>> \o InsertSorted_BeforeEqual(Tail(sorted), e)
       ELSE <<e>> \o sorted

\* Array.prototype.sort with a comparator is a stable sort: an element goes
\* behind every element the comparator does not order after it.
RECURSIVE InsertSorted(_, _)
InsertSorted(sorted, e) ==
  IF sorted = <<>> THEN <<e>>
  ELSE IF CompareScore(Head(sorted), e) <= 0
       THEN <<Head(sorted)>> \o InsertSorted(Tail(sorted), e)
       ELSE <<e>> \o sorted

RECURSIVE Sort(_)
Sort(list) ==
  IF list = <<>> THEN <<>>
  ELSE InsertSorted(Sort(SubSeq(list, 1, Len(list) - 1)), list[Len(list)])

\* completedHypotheses.sort(...).map(...): the cards in the order shown.
shownHypotheses == Sort(completedHypotheses(hypotheses))

\* Variant: the tier bounds are exclusive.
getScoreLabel_Exclusive(score) ==
  IF score > 800000 THEN "High Quality"
  ELSE IF score > 600000 THEN "Good Quality"
  ELSE IF score > 400000 THEN "Moderate Quality"
  ELSE "Needs Review"

getScoreLabel(score) ==
  IF score >= 800000 THEN "High Quality"
  ELSE IF score >= 600000 THEN "Good Quality"
  ELSE IF score >= 400000 THEN "Moderate Quality"
  ELSE "Needs Review"

getScoreColor(score) ==
  IF score >= 800000 THEN "#059669"
  ELSE IF score >= 600000 THEN "#d97706"
  ELSE IF score >= 400000 THEN "#dc2626"
  ELSE "#6b7280"

\* The list of cards fed by ranking updates.
NextCards ==
  \/ \E i \in DOMAIN sockets : OnOpen(i)
  \/ \E f \in CardFrames : OnMessage(f)

SpecCards == Init /\ [][NextCards]_vars

PositionIn(list, h) == CHOOSE i \in 1..Len(list) : list[i] = h

\* C21: the cards are the ready subset in descending score order, and two
\* entries with the same score keep the relative order they have in the
\* stored collection.
C21_SortedStable ==
  LET ready == completedHypotheses(hypotheses)
      shown == shownHypotheses
  IN /\ Len(shown) = Len(ready)
     /\ \A i \in 1..Len(ready) : \E j \in 1..Len(shown) : shown[j] = ready[i]
     /\ \A i, j \in 1..Len(shown) : i < j => shown[i].score >= shown[j].score
     /\ \A i, j \in 1..Len(ready) :
          (i < j /\ ready[i].score = ready[j].score)
            => PositionIn(shown, ready[i]) < PositionIn(shown, ready[j])

\* Three cards: the stored order has the higher score last and a tie before
\* it, so the sort moves the last entry first and keeps the tie in order.
C21_Witness ==
  /\ Len(hypotheses) = 3
  /\ hypotheses[1].score = 799999
  /\ hypotheses[2].score = 799999
  /\ hypotheses[3].score = 800000
  /\ shownHypotheses = <<hypotheses[3], hypotheses[1], hypotheses[2]>>

\* C22: a card's tier is inclusive on its lower bound: 0.8 and above is the
\* top tier, 0.6 up to 0.8 the second, 0.4 up to 0.6 the third, below 0.4
\* the lowest; 0.80 is in the top tier and 0.799999 in the second.
C22_ScoreTiers ==
  /\ getScoreLabel(800000) = "High Quality"
  /\ getScoreLabel(799999) = "Good Quality"
  /\ \A i \in 1..Len(shownHypotheses) :
       LET sc == shownHypotheses[i].score
           tier == <<getScoreLabel(sc), getScoreColor(sc)>>
       IN /\ sc >= 800000 <=> tier = <<"High Quality", "#059669">>
          /\ (sc >= 600000 /\ sc < 800000) <=> tier = <<"Good Quality", "#d97706">>
          /\ (sc >= 400000 /\ sc < 600000) <=> tier = <<"Moderate Quality", "#dc2626">>
          /\ sc < 400000 <=> tier = <<"Needs Review", "#6b7280">>

\* Cards with the scores 0.8 and 0.799999 are shown.
C22_Witness ==
  /\ Len(shownHypotheses) = 2
  /\ shownHypotheses[1].score = 800000
  /\ shownHypotheses[2].score = 799999

\* -------------------------------------------------------- agent updates
\* The agent updates, and the session update that clears the running flag.
AgentFrames ==
  { Frame(m) : m \in AgentMessages }
    \cup { Frame(SessionUpdate("research_completed", EmptyData)) }

\* The channel handlers fed by agent updates.
NextAgents ==
  \/ \E i \in DOMAIN sockets : OnOpen(i)
  \/ \E f \in AgentFrames : OnMessage(f)

SpecAgents == Init /\ [][NextAgents]_vars

\* C23: an agent_update with an agent and a status makes the agent the
\* current agent, sets the agent's progress entry (keyed by the lower-cased
\* name) to the status and leaves the other entries, sets the running flag
\* when the status is running and leaves it unchanged for every other
\* status.
C23_AgentUpdate ==
  [][\A m \in AgentMessages :
       ( /\ OnMessage(Frame(m))
         /\ m.agent # ""
         /\ m.status # "" )
         => /\ currentAgent' = m.agent
            /\ progress'[ToLowerCase(m.agent)] = m.status
            /\ \A k \in AgentKeys \ {ToLowerCase(m.agent)} : progress'[k] = progress[k]
            /\ isRunning' = (isRunning \/ m.status = "running")]_vars

\* The ranking agent has completed and the running flag is still set.
C23_Witness ==
  /\ currentAgent = "ranking"
  /\ progress["ranking"] = "completed"
  /\ progress["generation"] = "running"
  /\ isRunning

\* C24: a generation-completed update carrying a hypothesis whose id is not
\* stored appends exactly one record for it with isProcessing true; when the
\* id is stored the collection is unchanged, so the same message handled
\* again changes nothing.
C24_GenerationAppends ==
  [][\A h \in GenPayloads :
       OnMessage(Frame(GenerationCompleted(h)))
         => /\ hypotheses' =
                 IF \E i \in 1..Len(hypotheses) : hypotheses[i].id = h.id
                 THEN hypotheses
                 ELSE hypotheses \o
                        <<[id |-> h.id, iteration |-> h.iteration,
                           review |-> h.review, score |-> h.score,
                           isProcessing |-> TRUE]>>
            /\ \E i \in 1..Len(hypotheses') : hypotheses'[i].id = h.id]_vars

\* Both hypotheses were announced, one of them twice: two records, both
\* processing.
C24_Witness ==
  /\ ops = MaxOps
  /\ Len(hypotheses) = 2
  /\ hypotheses[1].isProcessing
  /\ hypotheses[2].isProcessing
  /\ currentAgent = "generation"
  /\ progress["generation"] = "completed"
  /\ progress["ranking"] = "pending"
  /\ sessionStatus = "idle"
  /\ iteration = 0
  /\ ~isRunning
  /\ wsConnected

C26_ClearedImmediately ==
  [][\A text \in DomainGoalTexts :
       (SetResearchGoal(text) /\ ~LongGoal(text))
         => /\ domainContext' = NoContext
            /\ \A c \in debounceTimers' : c = Closure(text, isStarted)]_vars

\* What a detection request leaves in the domain context: the detected
\* context, or the default one when it fails.
InferenceResult(outcome, domain) ==
  IF outcome = "ok" THEN domain ELSE getDefaultDomainContext

\* C27: every detection request that completes, whatever was issued or has
\* completed before it, leaves its own result in the domain context, so
\* that after two outstanding requests the context is the result of the one
\* that completed last.
C27_CompletionOrder ==
  [][\A i \in 1..MaxInference, outcome \in InferenceOutcomes,
        domain \in DetectedContexts :
       InferenceResponds(i, outcome, domain)
         => domainContext' = InferenceResult(outcome, domain)]_vars

\* ------------------------------------------------ connectivity in the view
\* The badge of the header: WebSocket: {wsConnected ? 'Connected' : 'Disconnected'}
connectionBadge == IF wsConnected THEN "Connected" ELSE "Disconnected"

\* The Start button: disabled={!researchGoal.trim() || !wsConnected}
startDisabled == Trim(researchGoal) = "" \/ ~wsConnected

\* An open, error or close event of some socket.
ChannelEvent == \E i \in DOMAIN sockets : OnOpen(i) \/ OnError(i) \/ OnClose(i)

\* C31 (as stated): open, close and error events of the channel leave the
\* session status, the error message, the started and running flags, the
\* progress and the hypotheses unchanged, and a disconnection shows nowhere in
\* the view: neither the connection badge nor the Start button changes.
C31_OnlyRefusedStart ==
  [][ChannelEvent =>
       UNCHANGED <<sessionStatus, error, isStarted, isRunning, progress,
                   hypotheses, connectionBadge, startDisabled>>]_vars

\* C31 (amended): open, close and error events of the channel change only
\* the connectivity flag, the sockets and the reconnect timers; the session
\* status, the error message, the started and running flags, the progress
\* and the hypotheses are unchanged.  The view shows the connectivity: after
\* a close or an error the badge reads Disconnected and the Start button is
\* disabled, after an open the badge reads Connected.
C31_ChannelEventsFrame ==
  [][ChannelEvent =>
       /\ UNCHANGED <<sessionStatus, error, isStarted, isRunning, progress,
                      hypotheses, sessionId, researchGoal, domainContext,
                      currentAgent, iteration, startRequests, domainVars>>
       /\ (\E i \in DOMAIN sockets : OnOpen(i)) => connectionBadge' = "Connected"
       /\ (\E i \in DOMAIN sockets : OnError(i) \/ OnClose(i)) =>
            connectionBadge' = "Disconnected" /\ startDisabled']_vars

\* A running session whose channel has closed: nothing but the flag, the
\* badge and the pending reconnect shows it.
C31_Witness ==
  /\ isStarted
  /\ sessionStatus = "running"
  /\ error = Null
  /\ ~wsConnected
  /\ connectionBadge = "Disconnected"
  /\ sockets = <<>>
  /\ reconnectTimers > 0

\* --------------------------------------------- messages without a data object
\* The messages whose handler reads a member of the missing data object.
MissingDataMessages ==
  { AgentUpdate(a, "completed", NoData) : a \in {"generation", "reflection", "ranking"} }
    \cup { SessionUpdate(e, NoData) : e \in {"iteration_start", "research_error"} }

\* C32: a decoded message whose handling fails because its data object is
\* missing (a completed agent_update, an iteration_start or a research_error
\* without data) is dropped: the controller state is the same after it.
C32_MissingDataDropped ==
  [][\A m \in MissingDataMessages :
       OnMessage(Frame(m)) => UNCHANGED <<sessionVars, channelVars>>]_vars

\* ------------------------------------------------- flags and session status
\* C33: in every reachable state the started flag is true only if the
\* session status is running.
C33_StartedImpliesRunning == isStarted => sessionStatus = "running"

\* C34: in every reachable state the running flag is true only if the
\* session status is running.
C34_RunningFlagImpliesRunning == isRunning => sessionStatus = "running"

\* C35: once a stop or reset has returned the session to idle, the failure of
\* a start request issued before it changes neither the session status nor
\* the error message.
C35_LateStartFailureIgnored ==
  [][\A i \in 1..MaxOps, msg \in StartFailures :
       (sessionStatus = "idle" /\ ~isStarted /\ StartFails(i, msg)) =>
         UNCHANGED <<sessionStatus, error>>]_vars

\* C36: the session status leaves idle only through a start command: no
\* channel message processed while the status is idle changes it.
C36_IdleLeftOnlyByStart ==
  [][\A f \in Frames :
       (sessionStatus = "idle" /\ OnMessage(f)) => sessionStatus' = "idle"]_vars

\* C37: every stored hypothesis whose isProcessing is false has both a review
\* and a score, so every stored hypothesis is either counted as processing
\* or is in the ready subset.
C37_ProcessingOrReady ==
  \A i \in 1..Len(hypotheses) :
    /\ ~hypotheses[i].isProcessing =>
         hypotheses[i].review # NoReview /\ hypotheses[i].score # NoScore
    /\ hypotheses[i].isProcessing \/ IsReady(hypotheses[i])

\* ------------------------------------------- domain context and requests
\* C38: whenever the trimmed goal text has 15 or fewer characters and no
\* debounce timer is pending, the domain context is null, whatever inference
\* requests are or were outstanding.
C38_ShortGoalNoContext ==
  (Length(Trim(researchGoal)) <= MinGoalLength /\ debounceTimers = {})
    => domainContext = NoContext

\* C39: the domain-detection loading indicator is true exactly while at
\* least one inference request is outstanding.
C39_LoadingWhileOutstanding ==
  domainDetectionLoading <=> Len(inferenceRequests) >= 1

\* -------------------------------------------------- the AgentProgress view
\* `value.status` where value is a string primitive: a string has no such
\* member, the read gives undefined.
StatusMember(value) == NoReview

\* getAgentStatus of AgentProgress.js, on the progress map the controller
\* passes, whose entries are status strings.
getAgentStatus(prog, agentName) ==
  IF agentName \notin DOMAIN prog \/ ~TruthyString(prog[agentName])
  THEN "pending"
  ELSE IF TruthyString(StatusMember(prog[agentName]))
       THEN StatusMember(prog[agentName])
       ELSE "pending"

\* {(isStarted || completedHypotheses.length > 0) && <AgentProgress ... />}
agentProgressShown == isStarted \/ Len(completedHypotheses(hypotheses)) > 0

\* C40: while the AgentProgress view is shown, the status it derives for
\* each of generation, reflection and ranking equals the status stored for
\* that agent in the progress map.
C40_ViewShowsStoredStatus ==
  agentProgressShown =>
    \A a \in AgentKeys : getAgentStatus(progress, a) = progress[a]

====
